---------------------------- MODULE Spec2Model ----------------------------
(***************************************************************************)
(* A model of the urlshortener's authorization-aware ShortLink client      *)
(* (ShortlinkClientAuth), the /api/v1/shortlink HTTP handlers built on it, *)
(* and the Redirect reconciler with its ingress synthesizer.               *)
(*                                                                         *)
(* The Kubernetes API (the object store) is the environment: it keeps one  *)
(* resourceVersion per object, rejects an Update or a status Update whose  *)
(* resourceVersion is stale, and keeps spec and status on separate write   *)
(* paths.  Every store call may also fail for a transient reason.          *)
(***************************************************************************)
EXTENDS Integers, Sequences, FiniteSets, TLC

(***************************************************************************)
(* Bounds of the model.                                                    *)
(***************************************************************************)
\* number of API requests / client calls that may be in flight at once
NumReqs == 2
\* the invocation count up to which GET /{name} requests are followed
MaxCount == 2

(***************************************************************************)
(* Values.                                                                 *)
(***************************************************************************)
Users == {"alice", "bob", "carol"}
\* the zero value of a Go string: an owner field a request body left out
NoUser == ""
Names == {"home", "docs"}
Targets == {"example.com/page", "example.org"}
Reqs == 1 .. NumReqs
\* a nil *v1alpha1.ShortLink
Nil == [nil |-> TRUE]

\* what a request's Authorization header can hold: nothing, a token the
\* identity provider rejects, or a token of one of the users
Tokens == {"none", "bad"} \cup Users

\* the JSON bodies (v1alpha1.ShortLinkSpec) a POST or PUT may carry
BodyOwners == Users \cup {NoUser}
BodyCoOwners == {<< >>, <<"bob">>}
BodySpecs == [owner : BodyOwners, coOwners : BodyCoOwners, target : Targets]

ContentTypeApplicationJSON == "application/json"
ContentTypeTextPlain == "text/plain"
\* the accept header of a request: the last one stands for any other value
\* and for a missing header
NoAccept == ""
Accepts == {ContentTypeTextPlain, ContentTypeApplicationJSON, NoAccept}

StatusOK == 200
StatusUnauthorized == 401
StatusNotFound == 404
StatusInternalServerError == 500
\* the default of ShortLinkSpec.Code, the status of the redirect answer
StatusTemporaryRedirect == 307
\* no status was written by the handler
NotWritten == 0

VARIABLES
    shortlinks,     \* the ShortLink store: Names -> stored object or Nil
    req             \* the requests and client calls in flight

slVars == <<shortlinks, req>>

VARIABLES
    redirects,      \* the Redirect store: RedirectNames -> object or Nil
    ingresses,      \* the Ingress store: IngressNames -> object or Nil
    rec             \* the reconciliation pass of the Redirect reconciler

rdVars == <<redirects, ingresses, rec>>
vars == <<shortlinks, req, redirects, ingresses, rec>>

(***************************************************************************)
(* v1alpha1.ShortLink.  A stored object is its spec and status.  A copy a  *)
(* caller holds has one more field, fresh: whether the resourceVersion it  *)
(* carries is still the stored object's, i.e. whether no write to the      *)
(* object was applied since the copy was read or last written.             *)
(***************************************************************************)
\* the object the API server stores on a create: the status subresource
\* starts from its defaults whatever the request carried
NewShortLink(spec) ==
    [owner |-> spec.owner, coOwners |-> spec.coOwners, target |-> spec.target,
     count |-> 0, changedBy |-> NoUser]

\* the copy of a stored object that a read or a successful write returns
Fresh(stored) == [fresh |-> TRUE] @@ stored

\* what the store keeps of a caller's copy
Stored(shortLink) ==
    [owner |-> shortLink.owner, coOwners |-> shortLink.coOwners,
     target |-> shortLink.target, count |-> shortLink.count,
     changedBy |-> shortLink.changedBy]

\* the zero value of v1alpha1.ShortLinkSpec
NoSpec == [owner |-> NoUser, coOwners |-> << >>, target |-> ""]

\* a ShortLink built by a caller from a spec, not read from the store
Built(spec) == [fresh |-> FALSE] @@ NewShortLink(spec)

\* shortlink.Spec = spec
WithSpec(shortLink, spec) ==
    [shortLink EXCEPT !.owner = spec.owner, !.coOwners = spec.coOwners,
                      !.target = spec.target]

SpecOf(shortLink) ==
    [owner |-> shortLink.owner, coOwners |-> shortLink.coOwners,
     target |-> shortLink.target]

\* slices.Contains
Contains(s, e) == \E i \in 1 .. Len(s) : s[i] = e

\* ShortLink.IsOwnedBy(username)
IsOwnedBy(shortLink, username) ==
    username = shortLink.owner \/ Contains(shortLink.coOwners, username)

(***************************************************************************)
(* ShortlinkClient: the typed wrapper over the Kubernetes client.  Each    *)
(* operator gives the call's outcome: the error, the caller's object as    *)
(* the call leaves it, and the object the store holds afterwards.          *)
(* `fail' is the environment's choice to fail the call (API server         *)
(* unreachable, namespace file unreadable).                                *)
(***************************************************************************)
ErrNil == "nil"
ErrNotFound == "not found"
ErrTransient == "connection refused"
ErrConflict == "the object has been modified"
ErrAlreadyExists == "already exists"

\* ShortlinkClient.Get -> GetNamespaced
ClientGet(name, fail) ==
    IF fail THEN [err |-> ErrTransient, obj |-> Nil]
    ELSE IF shortlinks[name] = Nil THEN [err |-> ErrNotFound, obj |-> Nil]
    ELSE [err |-> ErrNil, obj |-> Fresh(shortlinks[name])]

\* ShortlinkClient.List -> ListNamespaced: the items in the order the store
\* returns them (`order' lists the names of the stored objects)
ClientList(order, fail) ==
    IF fail THEN [err |-> ErrTransient, items |-> << >>]
    ELSE [err |-> ErrNil,
          items |-> [i \in 1 .. Len(order) |->
                        [name |-> order[i], obj |-> shortlinks[order[i]]]]]

\* ShortlinkClient.Create had the store replaced an object of the same name
ClientCreateOverwrite(name, shortLink, fail) ==
    LET cur == shortlinks[name] IN
    IF fail THEN [err |-> ErrTransient, obj |-> shortLink, stored |-> cur]
    ELSE LET new == NewShortLink(SpecOf(shortLink))
         IN  [err |-> ErrNil, obj |-> Fresh(new), stored |-> new]

\* ShortlinkClient.Create
ClientCreate(name, shortLink, fail) ==
    LET cur == shortlinks[name] IN
    IF fail THEN [err |-> ErrTransient, obj |-> shortLink, stored |-> cur]
    ELSE IF cur # Nil
         THEN [err |-> ErrAlreadyExists, obj |-> shortLink, stored |-> cur]
    ELSE LET new == NewShortLink(SpecOf(shortLink))
         IN  [err |-> ErrNil, obj |-> Fresh(new), stored |-> new]

\* ShortlinkClient.Update had the store not compared the resourceVersion of
\* the caller's copy with the stored object's
ClientUpdateUnchecked(name, shortLink, fail) ==
    LET cur == shortlinks[name] IN
    IF fail THEN [err |-> ErrTransient, obj |-> shortLink, stored |-> cur]
    ELSE IF cur = Nil THEN [err |-> ErrNotFound, obj |-> shortLink, stored |-> cur]
    ELSE LET new == [cur EXCEPT !.owner = shortLink.owner,
                                !.coOwners = shortLink.coOwners,
                                !.target = shortLink.target]
         IN  [err |-> ErrNil, obj |-> Fresh(new), stored |-> new]

\* ShortlinkClient.Update: the spec write; the stored status is kept and
\* comes back in the caller's object
ClientUpdate(name, shortLink, fail) ==
    LET cur == shortlinks[name] IN
    IF fail THEN [err |-> ErrTransient, obj |-> shortLink, stored |-> cur]
    ELSE IF cur = Nil THEN [err |-> ErrNotFound, obj |-> shortLink, stored |-> cur]
    ELSE IF ~shortLink.fresh
         THEN [err |-> ErrConflict, obj |-> shortLink, stored |-> cur]
    ELSE LET new == [cur EXCEPT !.owner = shortLink.owner,
                                !.coOwners = shortLink.coOwners,
                                !.target = shortLink.target]
         IN  [err |-> ErrNil, obj |-> Fresh(new), stored |-> new]

\* ShortlinkClient.UpdateStatus had the store not compared the
\* resourceVersion of the caller's copy with the stored object's
ClientUpdateStatusUnchecked(name, shortLink, fail) ==
    LET cur == shortlinks[name] IN
    IF fail THEN [err |-> ErrTransient, obj |-> shortLink, stored |-> cur]
    ELSE IF cur = Nil THEN [err |-> ErrNotFound, obj |-> shortLink, stored |-> cur]
    ELSE LET new == [cur EXCEPT !.count = shortLink.count,
                                !.changedBy = shortLink.changedBy]
         IN  [err |-> ErrNil, obj |-> Fresh(new), stored |-> new]

\* ShortlinkClient.UpdateStatus: the status-subresource write; the stored
\* spec is kept
ClientUpdateStatus(name, shortLink, fail) ==
    LET cur == shortlinks[name] IN
    IF fail THEN [err |-> ErrTransient, obj |-> shortLink, stored |-> cur]
    ELSE IF cur = Nil THEN [err |-> ErrNotFound, obj |-> shortLink, stored |-> cur]
    ELSE IF ~shortLink.fresh
         THEN [err |-> ErrConflict, obj |-> shortLink, stored |-> cur]
    ELSE LET new == [cur EXCEPT !.count = shortLink.count,
                                !.changedBy = shortLink.changedBy]
         IN  [err |-> ErrNil, obj |-> Fresh(new), stored |-> new]

\* IncrementInvocationCount had it added two
IncrementInvocationCountTwice(name, shortLink, fail) ==
    ClientUpdateStatus(name, [shortLink EXCEPT !.count = @ + 2], fail)

\* ShortlinkClient.IncrementInvocationCount: the caller's copy gets its count
\* raised by one and is written to the status subresource
IncrementInvocationCount(name, shortLink, fail) ==
    ClientUpdateStatus(name, [shortLink EXCEPT !.count = @ + 1], fail)

\* ShortlinkClient.Delete: by name, with no resourceVersion precondition
ClientDelete(name, shortLink, fail) ==
    LET cur == shortlinks[name] IN
    IF fail THEN [err |-> ErrTransient, obj |-> shortLink, stored |-> cur]
    ELSE IF cur = Nil THEN [err |-> ErrNotFound, obj |-> shortLink, stored |-> cur]
    ELSE [err |-> ErrNil, obj |-> shortLink, stored |-> Nil]

\* the orders in which the store may return the stored objects
StoredNames == {n \in Names : shortlinks[n] # Nil}
ListOrders ==
    {o \in [1 .. Cardinality(StoredNames) -> StoredNames] :
        \A i, j \in DOMAIN o : i # j => o[i] # o[j]}

(***************************************************************************)
(* ShortlinkClientAuth                                                     *)
(***************************************************************************)
\* the loop of ShortlinkClientAuth.List had it compared the owner only
RECURSIVE FilterOwnedByOwnerOnly(_, _)
FilterOwnedByOwnerOnly(items, username) ==
    IF items = << >> THEN << >>
    ELSE LET rest == FilterOwnedByOwnerOnly(Tail(items), username)
         IN  IF Head(items).obj.owner = username
             THEN <<Head(items)>> \o rest
             ELSE rest

\* the loop of ShortlinkClientAuth.List: append the items username owns
RECURSIVE FilterOwned(_, _)
FilterOwned(items, username) ==
    IF items = << >> THEN << >>
    ELSE LET rest == FilterOwned(Tail(items), username)
         IN  IF IsOwnedBy(Head(items).obj, username)
             THEN <<Head(items)>> \o rest
             ELSE rest

\* ShortlinkClientAuth.List
AuthList(username, order, fail) ==
    LET list == ClientList(order, fail) IN
    IF list.err # ErrNil THEN [err |-> list.err, items |-> << >>]
    ELSE [err |-> ErrNil, items |-> FilterOwned(list.items, username)]

\* ShortlinkClientAuth.Get
AuthGet(username, name, fail) ==
    LET got == ClientGet(name, fail) IN
    IF got.err # ErrNil THEN [err |-> got.err, obj |-> Nil]
    ELSE IF ~IsOwnedBy(got.obj, username) THEN [err |-> ErrNil, obj |-> Nil]
    ELSE [err |-> ErrNil, obj |-> got.obj]

\* ShortlinkClientAuth.Create had it left the owner as the caller sent it
AuthCreateObjectAsSent(username, shortLink) == shortLink

\* ShortlinkClientAuth.Create: the object handed to ShortlinkClient.Create
AuthCreateObject(username, shortLink) ==
    [shortLink EXCEPT !.owner = username]

\* ShortlinkClientAuth.Create
AuthCreate(username, name, shortLink, fail) ==
    ClientCreate(name, AuthCreateObject(username, shortLink), fail)

\* ShortlinkClientAuth.Update had it appended every user who is not the
\* owner
AuthUpdateObjectAppendAlways(username, shortLink) ==
    IF shortLink.owner # username
    THEN [shortLink EXCEPT !.coOwners = Append(shortLink.coOwners, username)]
    ELSE shortLink

\* ShortlinkClientAuth.Update, up to the spec write: the object handed to
\* ShortlinkClient.Update
AuthUpdateObject(username, shortLink) ==
    IF shortLink.owner # username /\ ~Contains(shortLink.coOwners, username)
    THEN [shortLink EXCEPT !.coOwners = Append(shortLink.coOwners, username)]
    ELSE shortLink

\* ShortlinkClientAuth.Update, the spec write
AuthUpdateSpec(username, name, shortLink, fail) ==
    ClientUpdate(name, AuthUpdateObject(username, shortLink), fail)

\* ShortlinkClientAuth.Update had it written the status as it was read
AuthUpdateStatusAsRead(username, name, shortLink, fail) ==
    ClientUpdateStatus(name, shortLink, fail)

\* ShortlinkClientAuth.Update, after the spec write: set status.changedBy
\* and write the status subresource
AuthUpdateStatus(username, name, shortLink, fail) ==
    ClientUpdateStatus(name, [shortLink EXCEPT !.changedBy = username], fail)

\* ShortlinkClientAuth.Delete had it called the store for every user
AuthDeleteUnchecked(username, name, shortLink, fail) ==
    [called |-> TRUE] @@ ClientDelete(name, shortLink, fail)

\* ShortlinkClientAuth.Delete: `called' tells whether the store was called
AuthDelete(username, name, shortLink, fail) ==
    IF ~IsOwnedBy(shortLink, username)
    THEN [err |-> ErrNil, obj |-> shortLink, stored |-> shortlinks[name],
          called |-> FALSE]
    ELSE [called |-> TRUE] @@ ClientDelete(name, shortLink, fail)

(***************************************************************************)
(* The HTTP controller layer.                                              *)
(***************************************************************************)
\* ginReturnError: the status written to the response, if any is written
ginReturnError(statusCode, contentType) ==
    IF contentType = ContentTypeTextPlain THEN statusCode
    ELSE IF contentType = ContentTypeApplicationJSON THEN statusCode
    ELSE NotWritten

\* the status the list, get and delete handlers choose for a failed client
\* call: strings.Contains(err.Error(), "not found"); the create and update
\* handlers answer every failure with StatusInternalServerError
ErrorStatus(err) ==
    IF err = ErrNotFound THEN StatusNotFound ELSE StatusInternalServerError

\* getGitHubUserInfo: the identity provider resolves the token to a login,
\* or the call fails (`idpOk' is whether the provider could be reached)
getGitHubUserInfo(bearerToken, idpOk) ==
    IF idpOk /\ bearerToken \in Users
    THEN [err |-> FALSE, login |-> bearerToken]
    ELSE [err |-> TRUE, login |-> NoUser]

\* the status the client receives: gin answers 200 when the handler wrote
\* none
HTTPStatus(q) == IF q.resp = NotWritten THEN StatusOK ELSE q.resp

\* A request or call: op and via say what it is (a handler, or a method of
\* ShortlinkClientAuth called directly), pc where it stands, authn how its
\* token fared, user the caller, obj the *ShortLink it holds, items what
\* List returned, err the error of its last client call, resp the status
\* written, fault whether the handler panicked, calls and writes the store
\* calls and the store writes it issued.
IdleReq ==
    [op |-> "none", via |-> "none", pc |-> "idle", authn |-> "none",
     user |-> NoUser, name |-> "home", obj |-> Nil, items |-> << >>,
     err |-> ErrNil, resp |-> NotWritten, fault |-> FALSE,
     calls |-> 0, writes |-> 0]

\* the request is over: the handler's locals are gone; a direct Get leaves
\* its result with the caller, a direct Create the object it was given
End(q) ==
    [q EXCEPT !.pc = "done",
              !.obj = IF q.op \in {"get", "create"} /\ q.via = "client"
                      THEN q.obj ELSE Nil]

\* the handler returns after ginReturnError(statusCode, ...)
Respond(q, statusCode, accept) ==
    End([q EXCEPT !.resp = ginReturnError(statusCode, accept)])

\* a call made directly on ShortlinkClientAuth comes with no request, so
\* with no body but the spec of the object passed and no accept header
Direct(r, body, parseOk, accept) ==
    req[r].via = "client" =>
        /\ parseOk
        /\ accept = NoAccept
        /\ req[r].obj # Nil => body = SpecOf(req[r].obj)

\* how a request or call ends after its last client call returned err:
\* `errStatus' is what the handler writes on an error and `okStatus' what it
\* writes on success (NotWritten: nothing)
Finish(q, err, errStatus, okStatus, accept) ==
    IF q.via = "client" THEN End([q EXCEPT !.err = err])
    ELSE IF err # ErrNil
         THEN Respond([q EXCEPT !.err = err], errStatus, accept)
    ELSE IF okStatus = NotWritten THEN End(q)
    ELSE Respond(q, okStatus, accept)

\* the requests after request r became q and, when `wrote', changed the
\* stored object `name': every other copy of it is stale from now on
After(r, q, name, wrote) ==
    [x \in Reqs |->
        IF x = r THEN q
        ELSE IF wrote /\ req[x].name = name /\ req[x].obj # Nil
             THEN [req[x] EXCEPT !.obj.fresh = FALSE]
        ELSE req[x]]

SLInit ==
    /\ shortlinks = [n \in Names |-> Nil]
    /\ req = [r \in Reqs |-> IdleReq]

\* Every /api/v1/shortlink handler up to its first client call: the bearer
\* token is taken from the Authorization header and resolved by
\* getGitHubUserInfo.
HandlerStart(r, op, name, token, idpOk, accept) ==
    /\ req[r].pc = "idle"
    /\ LET q == [req[r] EXCEPT !.op = op, !.via = "http", !.name = name]
           info == getGitHubUserInfo(token, idpOk)
       IN  req' = [req EXCEPT ![r] =
                IF token = "none"
                THEN Respond([q EXCEPT !.authn = "no token"],
                             StatusUnauthorized, accept)
                ELSE IF info.err
                THEN Respond([q EXCEPT !.authn = "rejected"],
                             StatusUnauthorized, accept)
                ELSE [q EXCEPT !.authn = "ok", !.user = info.login,
                               !.pc = IF op \in {"update", "delete"}
                                      THEN "get" ELSE op]]
    /\ UNCHANGED shortlinks
    /\ UNCHANGED rdVars

\* A caller invokes a method of ShortlinkClientAuth directly, as username.
\* Update and Delete take a ShortLink the caller holds: here the stored
\* object, for Update with a spec of the caller's choice.
ClientStart(r, op, username, name, spec) ==
    /\ req[r].pc = "idle"
    /\ op \in {"update", "delete"} => shortlinks[name] # Nil
    /\ req' = [req EXCEPT ![r] =
            [@ EXCEPT !.op = op, !.via = "client", !.name = name,
                      !.user = username, !.pc = op,
                      !.obj = IF op = "update"
                              THEN WithSpec(Fresh(shortlinks[name]), spec)
                              ELSE IF op = "delete"
                                   THEN Fresh(shortlinks[name])
                              ELSE Nil]]
    /\ UNCHANGED shortlinks
    /\ UNCHANGED rdVars

\* HandleListShortLink from its call of ShortlinkClientAuth.List, or a
\* direct call of it
DoList(r, order, fail, accept) ==
    /\ req[r].pc = "list"
    /\ Direct(r, << >>, TRUE, accept)
    /\ LET out == AuthList(req[r].user, order, fail)
           q == [req[r] EXCEPT !.items = out.items, !.calls = @ + 1]
       IN  req' = [req EXCEPT ![r] =
                Finish(q, out.err, ErrorStatus(out.err), StatusOK, accept)]
    /\ UNCHANGED shortlinks
    /\ UNCHANGED rdVars

\* The call of ShortlinkClientAuth.Get in HandleGetShortLink,
\* HandleUpdateShortLink and HandleDeleteShortLink and what follows it up
\* to the next client call, or a direct call of it
DoGet(r, fail, accept) ==
    /\ req[r].pc = "get"
    /\ Direct(r, << >>, TRUE, accept)
    /\ LET out == AuthGet(req[r].user, req[r].name, fail)
           q == [req[r] EXCEPT !.obj = out.obj, !.calls = @ + 1]
       IN  req' = [req EXCEPT ![r] =
                IF q.via = "client" \/ out.err # ErrNil
                THEN Finish(q, out.err, ErrorStatus(out.err), StatusOK, accept)
                ELSE IF q.op = "get"
                     THEN \* shortlink.Spec is read only when a body is written
                          IF ginReturnError(StatusOK, accept) = NotWritten
                          THEN End(q)
                          ELSE IF out.obj = Nil
                               THEN End([q EXCEPT !.fault = TRUE])
                               ELSE Respond(q, StatusOK, accept)
                ELSE IF out.obj = Nil
                     THEN Respond(q, StatusNotFound, accept)
                ELSE [q EXCEPT !.pc = q.op]]
    /\ UNCHANGED shortlinks
    /\ UNCHANGED rdVars

\* HandleCreateShortLink from reading the body, or a direct call of
\* ShortlinkClientAuth.Create; `body' is the spec sent and `parseOk' whether
\* the request body could be read and parsed
DoCreate(r, body, parseOk, fail, accept) ==
    /\ req[r].pc = "create"
    /\ Direct(r, body, parseOk, accept)
    /\ IF ~parseOk
       THEN /\ req' = [req EXCEPT ![r] =
                    Respond(@, StatusInternalServerError, accept)]
            /\ UNCHANGED shortlinks
       ELSE LET out == AuthCreate(req[r].user, req[r].name, Built(body), fail)
                q == [req[r] EXCEPT !.obj = out.obj, !.calls = @ + 1,
                                    !.writes = @ + 1]
            IN  /\ req' = After(r, Finish(q, out.err, StatusInternalServerError,
                                           StatusOK, accept),
                                req[r].name, out.err = ErrNil)
                /\ shortlinks' = [shortlinks EXCEPT ![req[r].name] = out.stored]
    /\ UNCHANGED rdVars

\* HandleUpdateShortLink from reading the body to the return of the spec
\* write of ShortlinkClientAuth.Update, or a direct call of Update to there
DoUpdate(r, body, parseOk, fail, accept) ==
    /\ req[r].pc = "update"
    /\ Direct(r, body, parseOk, accept)
    /\ IF ~parseOk
       THEN /\ req' = [req EXCEPT ![r] =
                    Respond(@, StatusInternalServerError, accept)]
            /\ UNCHANGED shortlinks
       ELSE LET shortLink == WithSpec(req[r].obj, body)
                out == AuthUpdateSpec(req[r].user, req[r].name, shortLink, fail)
                q == [req[r] EXCEPT !.obj = out.obj, !.calls = @ + 1,
                                    !.writes = @ + 1]
            IN  /\ req' = After(r, IF out.err # ErrNil
                                   THEN Finish(q, out.err,
                                               StatusInternalServerError,
                                               StatusOK, accept)
                                   ELSE [q EXCEPT !.pc = "status"],
                                req[r].name, out.err = ErrNil)
                /\ shortlinks' = [shortlinks EXCEPT ![req[r].name] = out.stored]
    /\ UNCHANGED rdVars

\* ShortlinkClientAuth.Update after the spec write, and the handler's
\* answer
DoUpdateStatus(r, fail, accept) ==
    /\ req[r].pc = "status"
    /\ Direct(r, SpecOf(req[r].obj), TRUE, accept)
    /\ LET out == AuthUpdateStatus(req[r].user, req[r].name, req[r].obj, fail)
           q == [req[r] EXCEPT !.obj = out.obj, !.calls = @ + 1,
                               !.writes = @ + 1]
       IN  /\ req' = After(r, Finish(q, out.err, StatusInternalServerError,
                                      StatusOK, accept),
                           req[r].name, out.err = ErrNil)
           /\ shortlinks' = [shortlinks EXCEPT ![req[r].name] = out.stored]
    /\ UNCHANGED rdVars

\* HandleDeleteShortLink from its call of ShortlinkClientAuth.Delete, or a
\* direct call of it
DoDelete(r, fail, accept) ==
    /\ req[r].pc = "delete"
    /\ Direct(r, SpecOf(req[r].obj), TRUE, accept)
    /\ LET out == AuthDelete(req[r].user, req[r].name, req[r].obj, fail)
           q == [req[r] EXCEPT
                    !.calls = IF out.called THEN @ + 1 ELSE @,
                    !.writes = IF out.called THEN @ + 1 ELSE @]
       IN  /\ req' = After(r, Finish(q, out.err, ErrorStatus(out.err),
                                      NotWritten, accept),
                           req[r].name, out.called /\ out.err = ErrNil)
           /\ shortlinks' = [shortlinks EXCEPT ![req[r].name] = out.stored]
    /\ UNCHANGED rdVars

\* the request is over; the slot serves the next one
Reset(r) ==
    /\ req[r].pc = "done"
    /\ req' = [req EXCEPT ![r] = IdleReq]
    /\ UNCHANGED shortlinks
    /\ UNCHANGED rdVars

\* HandleShortLink, GET /{name}, up to its call of ShortlinkClient.Get; the
\* route takes no token
HandleShortLinkStart(r, name) ==
    /\ req[r].pc = "idle"
    /\ IF shortlinks[name] = Nil THEN TRUE ELSE shortlinks[name].count < MaxCount
    /\ req' = [req EXCEPT ![r] =
                [@ EXCEPT !.op = "hit", !.via = "http", !.name = name,
                          !.pc = "hit"]]
    /\ UNCHANGED shortlinks
    /\ UNCHANGED rdVars

\* HandleShortLink, the Get and the answer: the 404 or 500 page, or the
\* redirect to the target
HandleShortLinkGet(r, fail) ==
    /\ req[r].pc = "hit"
    /\ LET out == ClientGet(req[r].name, fail)
           q == [req[r] EXCEPT !.obj = out.obj, !.err = out.err, !.calls = @ + 1]
       IN  req' = [req EXCEPT ![r] =
                IF out.err # ErrNil
                THEN End([q EXCEPT !.resp = ErrorStatus(out.err)])
                ELSE [q EXCEPT !.resp = StatusTemporaryRedirect,
                               !.pc = "increment"]]
    /\ UNCHANGED shortlinks
    /\ UNCHANGED rdVars

\* HandleShortLink, its last statement: IncrementInvocationCount, whose
\* error the handler drops (err keeps it here)
HandleShortLinkIncrement(r, fail) ==
    /\ req[r].pc = "increment"
    /\ LET out == IncrementInvocationCount(req[r].name, req[r].obj, fail)
           q == [req[r] EXCEPT !.err = out.err, !.calls = @ + 1,
                               !.writes = @ + 1]
       IN  /\ req' = After(r, End(q), req[r].name, out.err = ErrNil)
           /\ shortlinks' = [shortlinks EXCEPT ![req[r].name] = out.stored]
    /\ UNCHANGED rdVars

\* the controller hands the ShortLink reconciler a request for `name'; it
\* runs one pass per object at a time
ShortLinkReconcileStart(r, name) ==
    /\ req[r].pc = "idle"
    /\ \A x \in Reqs : req[x].op = "reconcile" => req[x].name # name
    /\ req' = [req EXCEPT ![r] =
                [@ EXCEPT !.op = "reconcile", !.via = "reconciler",
                          !.name = name, !.pc = "reconcile"]]
    /\ UNCHANGED shortlinks
    /\ UNCHANGED rdVars

\* ShortLinkReconciler.Reconcile, its GetNamespaced: a failure, not-found
\* included, is logged and the pass goes on
ShortLinkReconcileGet(r, fail) ==
    /\ req[r].pc = "reconcile"
    /\ LET out == ClientGet(req[r].name, fail)
       IN  req' = [req EXCEPT ![r] =
                [@ EXCEPT !.obj = out.obj, !.err = out.err, !.calls = @ + 1,
                          !.pc = "gauges"]]
    /\ UNCHANGED shortlinks
    /\ UNCHANGED rdVars

\* ShortLinkReconciler.Reconcile, its ListNamespaced for the gauges and the
\* return of (ctrl.Result{}, nil)
ShortLinkReconcileList(r, order, fail) ==
    /\ req[r].pc = "gauges"
    /\ LET out == ClientList(order, fail)
       IN  req' = [req EXCEPT ![r] =
                End([@ EXCEPT !.items = out.items, !.err = ErrNil,
                              !.calls = @ + 1])]
    /\ UNCHANGED shortlinks
    /\ UNCHANGED rdVars

Ops == {"list", "get", "create", "update", "delete"}

\* The requests one after the other, on the shortlink "home".
SLNext ==
    \E r \in {1} :
        \/ \E op \in Ops, token \in Tokens, idpOk \in BOOLEAN, accept \in Accepts :
                HandlerStart(r, op, "home", token, idpOk, accept)
        \/ \E op \in Ops \ {"update"}, username \in Users :
                ClientStart(r, op, username, "home", NoSpec)
        \/ \E username \in Users, spec \in BodySpecs :
                ClientStart(r, "update", username, "home", spec)
        \/ \E order \in ListOrders, fail \in BOOLEAN, accept \in Accepts :
                DoList(r, order, fail, accept)
        \/ \E fail \in BOOLEAN, accept \in Accepts : DoGet(r, fail, accept)
        \/ \E body \in BodySpecs, parseOk, fail \in BOOLEAN, accept \in Accepts :
                DoCreate(r, body, parseOk, fail, accept)
        \/ \E body \in BodySpecs, parseOk, fail \in BOOLEAN, accept \in Accepts :
                DoUpdate(r, body, parseOk, fail, accept)
        \/ \E fail \in BOOLEAN, accept \in Accepts : DoUpdateStatus(r, fail, accept)
        \/ \E fail \in BOOLEAN, accept \in Accepts : DoDelete(r, fail, accept)
        \/ Reset(r)


(***************************************************************************)
(* Redirects and their generated ingresses.                                *)
(***************************************************************************)
\* the Redirect objects of the namespace
RedirectNames == {"blog", "shop"}
\* the names ingresses of the namespace may have, in ascending order: the
\* one generated for the Redirect and one that somebody else manages
IngressOrder == <<"blog", "extra", "shop">>
IngressNames == {IngressOrder[i] : i \in DOMAIN IngressOrder}

\* host names, as their dot-separated labels
Sources == {<<"old", "example", "com">>}
RedirectTargets == {"new.example.com", "other.example.org"}
Codes == {308}
RewriteTargetKey == "nginx.ingress.kubernetes.io/rewrite-target"
PermanentRedirectKey == "nginx.ingress.kubernetes.io/permanent-redirect"
PermanentRedirectCodeKey == "nginx.ingress.kubernetes.io/permanent-redirect-code"
IssuerKey == "cert-manager.io/cluster-issuer"
\* an empty map[string]string
NoMap == [k \in {} |-> ""]
\* the tls.annotations a Redirect may carry: none, or a certificate issuer
\* together with an entry under a key the synthesizer sets itself
TLSAnnotations ==
    {NoMap,
     [k \in {IssuerKey, PermanentRedirectKey} |->
        IF k = IssuerKey THEN "letsencrypt"
        ELSE "https://elsewhere.example.net"]}
RedirectSpecs ==
    [source : Sources, target : RedirectTargets, code : Codes,
     tls : [enable : BOOLEAN, annotations : TLSAnnotations],
     ingressClassName : {"nginx"}]


\* strings.Join
RECURSIVE Join(_, _)
Join(labels, sep) ==
    IF labels = << >> THEN ""
    ELSE IF Len(labels) = 1 THEN labels[1]
    ELSE labels[1] \o sep \o Join(Tail(labels), sep)

\* the host name as written
Host(source) == Join(source, ".")
\* strings.ReplaceAll(source, ".", "-")
Dashed(source) == Join(source, "-")

\* GetLabelsForRedirect had it given every Redirect the same labels
GetLabelsShared(name) ==
    [k \in {"app", "redirect"} |-> IF k = "app" THEN "urlshortener" ELSE "redirect"]

\* GetLabelsForRedirect
GetLabelsForRedirect(name) ==
    [k \in {"app", "redirect"} |-> IF k = "app" THEN "urlshortener" ELSE name]

\* the position of an ingress name in the ascending order of the names
Rank(i) == CHOOSE k \in DOMAIN IngressOrder : IngressOrder[k] = i

\* GetIngressNames had it returned the names in ascending order
GetIngressNamesSorted(items) ==
    LET S == {items[k].name : k \in DOMAIN items}
    IN  [k \in 1 .. Cardinality(S) |->
            CHOOSE i \in S : Cardinality({j \in S : Rank(j) < Rank(i)}) = k - 1]

\* GetIngressNames: `items' are the listed ingresses, each with its name
RECURSIVE GetIngressNames(_)
GetIngressNames(items) ==
    IF items = << >> THEN << >>
    ELSE <<Head(items).name>> \o GetIngressNames(Tail(items))

\* an &networkingv1.Ingress{}: nothing set
EmptyIngress ==
    [name |-> "", labels |-> NoMap, annotations |-> NoMap, owner |-> "",
     ingressClassName |-> "", host |-> "", tls |-> << >>, rv |-> "none"]

\* RedirectAnnotations had it written the target without the scheme
RedirectAnnotationsBare(spec) ==
    LET base == [k \in {RewriteTargetKey, PermanentRedirectKey,
                        PermanentRedirectCodeKey} |->
                    IF k = RewriteTargetKey THEN "/"
                    ELSE IF k = PermanentRedirectKey
                         THEN spec.target \o "$request_uri"
                    ELSE ToString(spec.code)]
    IN  IF spec.tls.enable THEN spec.tls.annotations @@ base ELSE base

\* RedirectAnnotations had the synthesizer's own entries won over
\* tls.annotations
RedirectAnnotationsBaseWins(spec) ==
    LET base == [k \in {RewriteTargetKey, PermanentRedirectKey,
                        PermanentRedirectCodeKey} |->
                    IF k = RewriteTargetKey THEN "/"
                    ELSE IF k = PermanentRedirectKey
                         THEN "http://" \o spec.target \o "$request_uri"
                    ELSE ToString(spec.code)]
    IN  IF spec.tls.enable THEN base @@ spec.tls.annotations ELSE base

\* the annotations NewRedirectIngress gives the ingress: tls.annotations are
\* added, and win, when TLS is enabled
RedirectAnnotations(spec) ==
    LET base == [k \in {RewriteTargetKey, PermanentRedirectKey,
                        PermanentRedirectCodeKey} |->
                    IF k = RewriteTargetKey THEN "/"
                    ELSE IF k = PermanentRedirectKey
                         THEN "http://" \o spec.target \o "$request_uri"
                    ELSE ToString(spec.code)]
    IN  IF spec.tls.enable THEN spec.tls.annotations @@ base ELSE base

\* the TLS block NewRedirectIngress writes for a Redirect with TLS enabled
TLSBlock(spec) ==
    <<[hosts |-> <<Host(spec.source)>>,
       secretName |-> Dashed(spec.source) \o "-redirect-secret"]>>

\* NewRedirectIngress had it left the Spec of `ing' in place and only set the
\* TLS block when TLS is enabled
NewRedirectIngressKeepTLS(ing, name, spec) ==
    [ing EXCEPT
        !.name = name,
        !.labels = GetLabelsForRedirect(name),
        !.annotations = RedirectAnnotations(spec),
        !.owner = "",
        !.rv = "none",
        !.ingressClassName = spec.ingressClassName,
        !.host = Host(spec.source),
        !.tls = IF spec.tls.enable THEN TLSBlock(spec) ELSE ing.tls]

\* NewRedirectIngress: ObjectMeta and Spec of `ing' are replaced as a whole,
\* so the resourceVersion and the owner references it carried are gone
NewRedirectIngress(ing, name, spec) ==
    [ing EXCEPT
        !.name = name,
        !.labels = GetLabelsForRedirect(name),
        !.annotations = RedirectAnnotations(spec),
        !.owner = "",
        !.rv = "none",
        !.ingressClassName = spec.ingressClassName,
        !.host = Host(spec.source),
        !.tls = IF spec.tls.enable THEN TLSBlock(spec) ELSE << >>]

\* upsertRedirectIngress had it not made the Redirect the owner
SetNoReference(name, ingress) == ingress

\* ctrl.SetControllerReference(redirect, ingress, scheme): the owner is
\* written here as the Redirect's name
SetControllerReference(name, ingress) == [ingress EXCEPT !.owner = name]

\* what the store keeps, under the ingress's name, of an ingress a caller
\* sends
StoredIngress(ingress) ==
    [labels |-> ingress.labels, annotations |-> ingress.annotations,
     owner |-> ingress.owner, ingressClassName |-> ingress.ingressClassName,
     host |-> ingress.host, tls |-> ingress.tls]

\* the copy of the stored ingress `name' that a read returns
FreshIngress(name, stored) == [name |-> name, rv |-> "fresh"] @@ stored

\* the ingresses of the namespace that carry all of `labels'
Matching(labels) ==
    {i \in IngressNames :
        /\ ingresses[i] # Nil
        /\ \A k \in DOMAIN labels :
              /\ k \in DOMAIN ingresses[i].labels
              /\ ingresses[i].labels[k] = labels[k]}

\* the orders in which the store may list the ingresses of a set
OrdersOf(S) ==
    {o \in [1 .. Cardinality(S) -> S] :
        \A i, j \in DOMAIN o : i # j => o[i] # o[j]}

\* a Redirect as the store keeps it
NoStatus == [target |-> "", ingressName |-> << >>]
NewRedirect(spec) == [spec |-> spec, status |-> NoStatus]
\* a read had it returned a copy with a resourceVersion that is out of date
StaleRedirect(stored) == [fresh |-> FALSE] @@ stored

\* the copy of a stored Redirect that a read returns
FreshRedirect(stored) == [fresh |-> TRUE] @@ stored

\* Reconcile had it sent the Redirect with a spec it had changed, and the
\* store taken the whole object
StatusUpdateWithSpec(stored, redirect) ==
    [spec |-> [redirect.spec EXCEPT !.target = redirect.status.target],
     status |-> redirect.status]

\* r.client.Status().Update(ctx, redirect): the store takes the status of the
\* object sent and keeps the spec it has
StatusUpdate(stored, redirect) == [stored EXCEPT !.status = redirect.status]

\* the reconciler's pass: where it stands in Reconcile and its local values
IdlePass ==
    [pc |-> "idle", name |-> "", redirect |-> Nil, ingress |-> Nil,
     upsertErr |-> ErrNil, listed |-> FALSE, items |-> << >>,
     wrote |-> FALSE, err |-> ErrNil, result |-> "none"]

\* Reconcile returns (ctrl.Result{}, err)
Return(p, err) ==
    [p EXCEPT !.pc = "done", !.err = err,
              !.result = IF err = ErrNil THEN "ok" ELSE "error"]

\* Reconcile had it returned the not-found error of GetNamespaced
NotFoundReturned(p) == Return(p, ErrNotFound)

\* Reconcile when GetNamespaced says not found: the Redirect must have been
\* deleted; it returns (ctrl.Result{}, nil)
NotFoundIgnored(p) == Return(p, ErrNil)

\* upsertRedirectIngress returns (nil, err): Reconcile records the error and
\* goes on to list the ingresses
UpsertFailed(p, err) ==
    [p EXCEPT !.pc = "list", !.ingress = Nil, !.upsertErr = err]

RedirectInit ==
    /\ redirects = [n \in RedirectNames |-> Nil]
    /\ ingresses = [i \in IngressNames |-> Nil]
    /\ rec = IdlePass

\* the controller hands the reconciler a request for Redirect `name'
RStart(name) ==
    /\ rec.pc = "idle"
    /\ rec' = [IdlePass EXCEPT !.pc = "get", !.name = name]
    /\ UNCHANGED <<redirects, ingresses>>
    /\ UNCHANGED slVars

\* Reconcile, up to the upsert: rClient.List for the gauge (a read that
\* changes nothing) and rClient.GetNamespaced
RGet(fail) ==
    /\ rec.pc = "get"
    /\ rec' = IF fail THEN Return(rec, ErrTransient)
              ELSE IF redirects[rec.name] = Nil THEN NotFoundIgnored(rec)
              ELSE [rec EXCEPT !.pc = "upsert",
                               !.redirect = FreshRedirect(redirects[rec.name])]
    /\ UNCHANGED <<redirects, ingresses>>
    /\ UNCHANGED slVars

\* upsertRedirectIngress, its Get: the ingress is rebuilt from what was read
\* (or from an empty one) and the Redirect is made its controller
RUpsertGet(fail) ==
    /\ rec.pc = "upsert"
    /\ LET found == ~fail /\ ingresses[rec.name] # Nil
           read == IF found THEN FreshIngress(rec.name, ingresses[rec.name])
                   ELSE EmptyIngress
           ingress == SetControllerReference(rec.name,
                          NewRedirectIngress(read, rec.name, rec.redirect.spec))
       IN  rec' = IF fail THEN UpsertFailed(rec, ErrTransient)
                  ELSE [rec EXCEPT !.ingress = ingress,
                                   !.pc = IF found THEN "update" ELSE "create"]
    /\ UNCHANGED <<redirects, ingresses>>
    /\ UNCHANGED slVars

\* upsertRedirectIngress, its Create after a not-found
RCreate(fail) ==
    /\ rec.pc = "create"
    /\ IF fail \/ ingresses[rec.ingress.name] # Nil
       THEN /\ rec' = UpsertFailed(rec, IF fail THEN ErrTransient
                                        ELSE ErrAlreadyExists)
            /\ UNCHANGED ingresses
       ELSE /\ ingresses' = [ingresses EXCEPT
                                ![rec.ingress.name] = StoredIngress(rec.ingress)]
            /\ rec' = [rec EXCEPT !.pc = "update", !.ingress.rv = "fresh"]
    /\ UNCHANGED redirects
    /\ UNCHANGED slVars

\* upsertRedirectIngress, its Update: it follows the Create as well as a
\* successful Get
RUpdate(fail) ==
    /\ rec.pc = "update"
    /\ IF fail \/ ingresses[rec.ingress.name] = Nil
       THEN /\ rec' = UpsertFailed(rec, IF fail THEN ErrTransient
                                        ELSE ErrNotFound)
            /\ UNCHANGED ingresses
       ELSE /\ ingresses' = [ingresses EXCEPT
                                ![rec.ingress.name] = StoredIngress(rec.ingress)]
            /\ rec' = [rec EXCEPT !.pc = "list", !.ingress.rv = "fresh"]
    /\ UNCHANGED redirects
    /\ UNCHANGED slVars

\* Reconcile, the List of the labelled ingresses and the two assignments to
\* the local status; the second one reads ingress.ObjectMeta, which is a nil
\* pointer dereference when the upsert returned no ingress
RList(order, fail) ==
    /\ rec.pc = "list"
    /\ order \in OrdersOf(Matching(GetLabelsForRedirect(rec.name)))
    /\ LET items == [k \in DOMAIN order |-> [name |-> order[k]]]
       IN  rec' =
             IF fail THEN Return(rec, ErrTransient)
             ELSE IF rec.ingress = Nil
             THEN [rec EXCEPT !.pc = "done", !.listed = TRUE,
                              !.items = items, !.result = "panic"]
             ELSE [rec EXCEPT
                     !.pc = "status", !.listed = TRUE, !.items = items,
                     !.redirect.status =
                         [target |-> rec.ingress.annotations[PermanentRedirectKey],
                          ingressName |-> GetIngressNames(items)]]
    /\ UNCHANGED <<redirects, ingresses>>
    /\ UNCHANGED slVars

\* Reconcile, the Status().Update and the return
RStatus(fail) ==
    /\ rec.pc = "status"
    /\ IF fail \/ redirects[rec.name] = Nil \/ ~rec.redirect.fresh
       THEN /\ rec' = Return(rec, IF fail THEN ErrTransient
                                  ELSE IF redirects[rec.name] = Nil
                                  THEN ErrNotFound ELSE ErrConflict)
            /\ UNCHANGED redirects
       ELSE /\ redirects' = [redirects EXCEPT
                                ![rec.name] = StatusUpdate(@, rec.redirect)]
            /\ rec' = [Return(rec, ErrNil) EXCEPT !.wrote = TRUE]
    /\ UNCHANGED ingresses
    /\ UNCHANGED slVars

\* the pass is over; the controller waits for the next request
RDone ==
    /\ rec.pc = "done"
    /\ rec' = IdlePass
    /\ UNCHANGED <<redirects, ingresses>>
    /\ UNCHANGED slVars

\* the reconciler's copy of Redirect `name' is out of date after a write
Outdated(name) ==
    IF rec.name = name /\ rec.redirect # Nil
    THEN [rec EXCEPT !.redirect.fresh = FALSE] ELSE rec

\* a user creates Redirect `name' or replaces its spec
UserApplyRedirect(name, spec) ==
    /\ IF redirects[name] = Nil THEN TRUE ELSE redirects[name].spec # spec
    /\ redirects' = [redirects EXCEPT
                        ![name] = IF redirects[name] = Nil THEN NewRedirect(spec)
                                  ELSE [redirects[name] EXCEPT !.spec = spec]]
    /\ rec' = Outdated(name)
    /\ UNCHANGED ingresses
    /\ UNCHANGED slVars

\* a user deletes Redirect `name'
UserDeleteRedirect(name) ==
    /\ redirects[name] # Nil
    /\ redirects' = [redirects EXCEPT ![name] = Nil]
    /\ rec' = Outdated(name)
    /\ UNCHANGED ingresses
    /\ UNCHANGED slVars

\* the garbage collector removes an ingress whose controller is gone
GarbageCollect(i) ==
    /\ ingresses[i] # Nil
    /\ ingresses[i].owner \in RedirectNames
    /\ redirects[ingresses[i].owner] = Nil
    /\ ingresses' = [ingresses EXCEPT ![i] = Nil]
    /\ UNCHANGED <<redirects, rec>>
    /\ UNCHANGED slVars

\* somebody else creates an ingress that carries the labels of Redirect `name'
ForeignCreateIngress(i, name) ==
    /\ i \notin RedirectNames
    /\ ingresses[i] = Nil
    /\ ingresses' = [ingresses EXCEPT
                        ![i] = StoredIngress(
                                 [EmptyIngress EXCEPT
                                    !.labels = GetLabelsForRedirect(name)])]
    /\ UNCHANGED <<redirects, rec>>
    /\ UNCHANGED slVars

\* and removes it again
ForeignDeleteIngress(i) ==
    /\ i \notin RedirectNames
    /\ ingresses[i] # Nil
    /\ ingresses' = [ingresses EXCEPT ![i] = Nil]
    /\ UNCHANGED <<redirects, rec>>
    /\ UNCHANGED slVars

RedirectNext ==
    \/ \E name \in RedirectNames : RStart(name)
    \/ \E fail \in BOOLEAN : RGet(fail)
    \/ \E fail \in BOOLEAN : RUpsertGet(fail)
    \/ \E fail \in BOOLEAN : RCreate(fail)
    \/ \E fail \in BOOLEAN : RUpdate(fail)
    \/ \E order \in UNION {OrdersOf(S) : S \in SUBSET IngressNames},
          fail \in BOOLEAN : RList(order, fail)
    \/ \E fail \in BOOLEAN : RStatus(fail)
    \/ RDone
    \/ \E spec \in RedirectSpecs : UserApplyRedirect("blog", spec)
    \/ UserDeleteRedirect("blog")
    \/ \E i \in IngressNames : GarbageCollect(i)
    \/ \E i \in IngressNames : ForeignCreateIngress(i, "blog")
    \/ \E i \in IngressNames : ForeignDeleteIngress(i)

\* Calls of ShortlinkClientAuth.Create and ShortlinkClientAuth.List one after
\* the other, on every shortlink name
ListNext ==
    \E r \in {1} :
        \/ \E op \in {"create", "list"}, username \in Users, name \in Names :
                ClientStart(r, op, username, name, NoSpec)
        \/ \E body \in BodySpecs, fail \in BOOLEAN :
                DoCreate(r, body, TRUE, fail, NoAccept)
        \/ \E order \in ListOrders, fail \in BOOLEAN :
                DoList(r, order, fail, NoAccept)
        \/ Reset(r)

Init == SLInit /\ RedirectInit

\* the authorization wrapper's Create and List over a store of several
\* shortlinks
SpecList == Init /\ [][ListNext]_vars

\* the Redirect reconciler with its environment: every spec for the
\* Redirect "blog", which users create, change and delete, and an ingress of
\* somebody else with its labels; the shortlink API is idle
SpecRedirect == Init /\ [][RedirectNext]_vars

\* the specs the users give the Redirects when there are several
ManySpecs == {spec \in RedirectSpecs :
                 spec.target = "new.example.com" /\ spec.tls.annotations = NoMap}

\* The reconciler over several Redirects, which users create, change and
\* delete in any order.
ManyNext ==
    \/ \E name \in RedirectNames : RStart(name)
    \/ \E fail \in BOOLEAN : RGet(fail)
    \/ \E fail \in BOOLEAN : RUpsertGet(fail)
    \/ \E fail \in BOOLEAN : RCreate(fail)
    \/ \E fail \in BOOLEAN : RUpdate(fail)
    \/ \E order \in UNION {OrdersOf(S) : S \in SUBSET IngressNames},
          fail \in BOOLEAN : RList(order, fail)
    \/ \E fail \in BOOLEAN : RStatus(fail)
    \/ RDone
    \/ \E name \in RedirectNames, spec \in ManySpecs :
          UserApplyRedirect(name, spec)
    \/ \E name \in RedirectNames : UserDeleteRedirect(name)
    \/ \E i \in IngressNames : GarbageCollect(i)

SpecMany == Init /\ [][ManyNext]_vars

\* the shortlink API, one request at a time; the reconciler is idle
\* the spec of the ShortLink in the runs below: alice's, with one target
RaceSpecs ==
    {spec \in BodySpecs :
        spec.owner = "alice" /\ spec.coOwners = << >> /\ spec.target = "example.org"}

\* GET /{name} requests and Updates by the owner, as many at a time as there
\* are requests, and passes of the ShortLink reconciler, which are request 1,
\* all on the shortlink "home", which request 1 creates
RaceNext ==
    \/ ClientStart(1, "create", "alice", "home", NoSpec)
    \/ ShortLinkReconcileStart(1, "home")
    \/ \E r \in Reqs :
          \/ \E body \in RaceSpecs, fail \in BOOLEAN :
                  DoCreate(r, body, TRUE, fail, NoAccept)
          \/ \E spec \in RaceSpecs : ClientStart(r, "update", "alice", "home", spec)
          \/ \E body \in RaceSpecs, fail \in BOOLEAN :
                  DoUpdate(r, body, TRUE, fail, NoAccept)
          \/ \E fail \in BOOLEAN : DoUpdateStatus(r, fail, NoAccept)
          \/ HandleShortLinkStart(r, "home")
          \/ \E fail \in BOOLEAN : HandleShortLinkGet(r, fail)
          \/ \E fail \in BOOLEAN : HandleShortLinkIncrement(r, fail)
          \/ \E fail \in BOOLEAN : ShortLinkReconcileGet(r, fail)
          \/ \E order \in ListOrders, fail \in BOOLEAN :
                  ShortLinkReconcileList(r, order, fail)
          \/ Reset(r)

SpecRace == Init /\ [][RaceNext]_vars

\* The Redirect blog, its passes, its user and the garbage collector.
LiveNext ==
    \/ RStart("blog")
    \/ \E fail \in BOOLEAN : RGet(fail)
    \/ \E fail \in BOOLEAN : RUpsertGet(fail)
    \/ \E fail \in BOOLEAN : RCreate(fail)
    \/ \E fail \in BOOLEAN : RUpdate(fail)
    \/ \E order \in OrdersOf(Matching(GetLabelsForRedirect(rec.name))),
          fail \in BOOLEAN : RList(order, fail)
    \/ \E fail \in BOOLEAN : RStatus(fail)
    \/ RDone
    \/ \E spec \in RedirectSpecs : UserApplyRedirect("blog", spec)
    \/ UserDeleteRedirect("blog")
    \/ \E i \in IngressNames : GarbageCollect(i)

\* every store call of a pass returns, so a pass that has begun goes on to
\* its end
PassGoesOn ==
    /\ WF_vars(\E fail \in BOOLEAN : RGet(fail))
    /\ WF_vars(\E fail \in BOOLEAN : RUpsertGet(fail))
    /\ WF_vars(\E fail \in BOOLEAN : RCreate(fail))
    /\ WF_vars(\E fail \in BOOLEAN : RUpdate(fail))
    /\ WF_vars(\E order \in OrdersOf(Matching(GetLabelsForRedirect(rec.name))),
                  fail \in BOOLEAN : RList(order, fail))
    /\ WF_vars(\E fail \in BOOLEAN : RStatus(fail))
    /\ WF_vars(RDone)

\* the store's garbage collector gets to every ingress whose owner is gone
CollectorRuns == \A i \in IngressNames : WF_vars(GarbageCollect(i))

\* passes go on and the garbage collector runs
SpecCollect == Init /\ [][LiveNext]_vars /\ PassGoesOn /\ CollectorRuns

\* the controller keeps handing the Redirect to the reconciler: its watches,
\* the requeue after an error and the periodic resync
PassesTriggered == WF_vars(RStart("blog"))

SpecConverge ==
    Init /\ [][LiveNext]_vars /\ PassGoesOn /\ PassesTriggered /\ CollectorRuns

\* the two reconcilers, each on one object that its user creates and
\* deletes; the ShortLink reconciler's pass is request 1, the user's calls
\* are request 2
ReconcilersNext ==
    \/ RStart("blog")
    \/ \E fail \in BOOLEAN : RGet(fail)
    \/ \E fail \in BOOLEAN : RUpsertGet(fail)
    \/ \E fail \in BOOLEAN : RCreate(fail)
    \/ \E fail \in BOOLEAN : RUpdate(fail)
    \/ \E order \in OrdersOf(Matching(GetLabelsForRedirect(rec.name))),
          fail \in BOOLEAN : RList(order, fail)
    \/ \E fail \in BOOLEAN : RStatus(fail)
    \/ RDone
    \/ \E spec \in ManySpecs : UserApplyRedirect("blog", spec)
    \/ UserDeleteRedirect("blog")
    \/ \E i \in IngressNames : GarbageCollect(i)
    \/ ShortLinkReconcileStart(1, "home")
    \/ \E fail \in BOOLEAN : ShortLinkReconcileGet(1, fail)
    \/ \E order \in ListOrders, fail \in BOOLEAN :
            ShortLinkReconcileList(1, order, fail)
    \/ \E op \in {"create", "delete"} : ClientStart(2, op, "alice", "home", NoSpec)
    \/ \E body \in RaceSpecs, fail \in BOOLEAN :
            DoCreate(2, body, TRUE, fail, NoAccept)
    \/ \E fail \in BOOLEAN : DoDelete(2, fail, NoAccept)
    \/ \E r \in Reqs : Reset(r)

SpecReconcilers == Init /\ [][ReconcilersNext]_vars

\* the specs alice and bob submit to Update: alice stays the owner
UpdateSpecs == {spec \in BodySpecs : spec.owner = "alice"}

\* Calls of ShortlinkClientAuth.Update by alice and by bob on the shortlink
\* "home", which alice created with no co-owner (request 1), while GET /home
\* requests come in (request 2).
UpdateNext ==
    \/ ClientStart(1, "create", "alice", "home", NoSpec)
    \/ \E body \in RaceSpecs, fail \in BOOLEAN :
            DoCreate(1, body, TRUE, fail, NoAccept)
    \/ \E username \in {"alice", "bob"}, spec \in UpdateSpecs :
            ClientStart(1, "update", username, "home", spec)
    \/ \E body \in BodySpecs, fail \in BOOLEAN :
            DoUpdate(1, body, TRUE, fail, NoAccept)
    \/ \E fail \in BOOLEAN : DoUpdateStatus(1, fail, NoAccept)
    \/ HandleShortLinkStart(2, "home")
    \/ \E fail \in BOOLEAN : HandleShortLinkGet(2, fail)
    \/ \E fail \in BOOLEAN : HandleShortLinkIncrement(2, fail)
    \/ \E r \in Reqs : Reset(r)

SpecUpdate == Init /\ [][UpdateNext]_vars

\* PUT and DELETE requests of bob and carol (request 2) on the shortlink
\* "home" of alice, while alice creates it, with or without bob as co-owner,
\* and sends PUT requests that add or remove him (request 1).
RevokeNext ==
    \/ ClientStart(1, "create", "alice", "home", NoSpec)
    \/ \E body \in UpdateSpecs, fail \in BOOLEAN :
            DoCreate(1, body, TRUE, fail, NoAccept)
    \/ HandlerStart(1, "update", "home", "alice", TRUE,
                    ContentTypeApplicationJSON)
    \/ \E op \in {"update", "delete"}, token \in {"bob", "carol"} :
            HandlerStart(2, op, "home", token, TRUE, ContentTypeApplicationJSON)
    \/ \E r \in Reqs :
          \/ \E fail \in BOOLEAN : DoGet(r, fail, ContentTypeApplicationJSON)
          \/ \E body \in UpdateSpecs, fail \in BOOLEAN :
                  DoUpdate(r, body, TRUE, fail, ContentTypeApplicationJSON)
          \/ \E fail \in BOOLEAN :
                  DoUpdateStatus(r, fail, ContentTypeApplicationJSON)
          \/ \E fail \in BOOLEAN : DoDelete(r, fail, ContentTypeApplicationJSON)
          \/ Reset(r)

SpecRevoke == Init /\ [][RevokeNext]_vars

Next == SLNext

Spec == Init /\ [][Next]_vars


(***************************************************************************)
(* Properties of the authorization wrapper and the handlers.               *)
(***************************************************************************)
\* the requests and calls that may be under way
Running == {r \in Reqs : req[r].pc # "idle"}

\* request r is about a stored shortlink that its user neither owns nor
\* co-owns
Stranger(r) ==
    /\ shortlinks[req[r].name] # Nil
    /\ req[r].user # shortlinks[req[r].name].owner
    /\ ~Contains(shortlinks[req[r].name].coOwners, req[r].user)

\* C1: ShortlinkClientAuth.Get(U, S.name), for a user U who is neither the
\* owner nor a co-owner of the stored S, returns a non-nil error (never a nil
\* result with a nil error); an owner or co-owner gets S; Get writes nothing
\* to the store.
C1_GetDeniesStranger ==
    \A r \in Running :
        (req[r].via = "client" /\ req[r].op = "get" /\ req[r].pc = "done") =>
            /\ req[r].writes = 0
            /\ Stranger(r) => req[r].err # ErrNil
            /\ (shortlinks[req[r].name] # Nil /\ ~Stranger(r)
                    /\ req[r].err = ErrNil) =>
                  Stored(req[r].obj) = shortlinks[req[r].name]

\* C2: ShortlinkClientAuth.Update(U, S) by a user U who is neither the owner
\* nor a co-owner of the stored S fails with an error, issues no store write
\* and leaves the stored object unchanged.
C2_UpdateDeniesStranger ==
    [][\A r \in Running :
          (req[r].via = "client" /\ req[r].pc = "update" /\ Stranger(r)
              /\ req'[r].pc # "update") =>
             /\ req'[r].err # ErrNil
             /\ req'[r].writes = req[r].writes
             /\ shortlinks' = shortlinks]_vars

\* C3: ShortlinkClientAuth.Delete(U, S) by a user U who is neither the owner
\* nor a co-owner of S returns a non-nil error; it does not report success.
C3_DeleteDeniesStranger ==
    \A r \in Running :
        (req[r].via = "client" /\ req[r].op = "delete" /\ req[r].pc = "done"
            /\ Stranger(r)) =>
           req[r].err # ErrNil

\* C4: the stored spec.owner of a ShortLink changes only in an Update (direct
\* or by the PUT handler) whose caller is the current owner.
C4_OwnerChangedByOwnerOnly ==
    [][\A n \in Names :
          (shortlinks[n] # Nil /\ shortlinks'[n] # Nil
              /\ shortlinks'[n].owner # shortlinks[n].owner) =>
             \E r \in Running :
                /\ req[r].op = "update" /\ req[r].name = n
                /\ req[r].user = shortlinks[n].owner]_vars

\* C5: ShortlinkClientAuth.Create(U, spec), direct or by the POST handler,
\* hands the store an object whose owner is U whatever owner the spec
\* carried: the caller's object carries owner U after the call, and the
\* object a successful Create stored has owner U.
C5_CreateForcesOwner ==
    [][\A r \in Running :
          (req[r].pc = "create" /\ req'[r].calls = req[r].calls + 1) =>
             /\ req'[r].via = "client" => req'[r].obj.owner = req[r].user
             /\ shortlinks'[req[r].name] # shortlinks[req[r].name] =>
                   /\ shortlinks[req[r].name] = Nil
                   /\ shortlinks'[req[r].name].owner = req[r].user]_vars

\* a Create by the POST handler has succeeded and the stored object is the
\* caller's
C5_Witness ==
    \E r \in Running :
        /\ req[r].op = "create" /\ req[r].via = "http" /\ req[r].pc = "done"
        /\ req[r].resp = StatusOK /\ req[r].writes = 1
        /\ shortlinks[req[r].name] # Nil
        /\ shortlinks[req[r].name].owner = req[r].user
        /\ shortlinks[req[r].name].coOwners = <<"bob">>
        /\ req[r].user = "carol"

\* the names of the items of a list result
ItemNames(items) == {items[i].name : i \in DOMAIN items}

\* C6: ShortlinkClientAuth.List(U) returns exactly the stored ShortLinks of
\* which U is the owner or a co-owner, each once and as stored; when none
\* matches the result is empty and there is no error (the only error is
\* that of the underlying list).
C6_ListReturnsOwned ==
    \A r \in Running :
        (req[r].op = "list" /\ req[r].pc = "done" /\ req[r].calls = 1) =>
            /\ req[r].err \in {ErrNil, ErrTransient}
            /\ req[r].err = ErrNil =>
                  /\ ItemNames(req[r].items) =
                        {n \in Names :
                            /\ shortlinks[n] # Nil
                            /\ \/ shortlinks[n].owner = req[r].user
                               \/ \E i \in DOMAIN shortlinks[n].coOwners :
                                     shortlinks[n].coOwners[i] = req[r].user}
                  /\ Cardinality(ItemNames(req[r].items)) = Len(req[r].items)
                  /\ \A i \in DOMAIN req[r].items :
                        req[r].items[i].obj = shortlinks[req[r].items[i].name]

\* a List by bob has returned the one shortlink he co-owns and left out the
\* one he has no part in
C6_Witness ==
    \E r \in Running :
        /\ req[r].op = "list" /\ req[r].pc = "done" /\ req[r].err = ErrNil
        /\ req[r].user = "bob"
        /\ \A n \in Names : shortlinks[n] # Nil
        /\ Len(req[r].items) = 1
        /\ req[r].items[1].obj.owner # "bob"

\* C7: a GET, PUT or DELETE on /api/v1/shortlink/{name} by an authenticated
\* user who is neither owner nor co-owner of the existing shortlink ends,
\* when no store call failed, with a 401 or 403 response and without a
\* fault (not with 200 and not with 404).
C7_StrangerGetsUnauthorized ==
    \A r \in Running :
        (req[r].via = "http" /\ req[r].op \in {"get", "update", "delete"}
            /\ req[r].pc = "done" /\ req[r].authn = "ok" /\ req[r].calls = 1
            /\ req[r].err = ErrNil /\ Stranger(r)) =>
           /\ ~req[r].fault
           /\ HTTPStatus(req[r]) \in {StatusUnauthorized, 403}

\* C8: a request to a /api/v1/shortlink handler that carries no token, or a
\* token the identity provider rejects, ends in a 401 response with no store
\* access.
C8_NoTokenNoAccess ==
    \A r \in Running :
        (req[r].via = "http" /\ req[r].pc = "done" /\ req[r].authn # "ok") =>
            /\ req[r].calls = 0 /\ req[r].writes = 0
            /\ HTTPStatus(req[r]) = StatusUnauthorized

(***************************************************************************)
(* Properties of the Redirect reconciler.                                  *)
(***************************************************************************)
\* C9: when the ingress upsert of a Redirect reconciliation pass fails, the
\* pass aborts: Reconcile returns the error, and it neither goes on to read
\* the ingress the upsert did not return nor writes the Redirect status.
C9_UpsertFailureAborts ==
    (rec.pc = "done" /\ rec.upsertErr # ErrNil) =>
        /\ rec.result = "error"
        /\ ~rec.listed
        /\ ~rec.wrote

\* a sequence of ingress names is in ascending order
IsSorted(names) ==
    \A k \in DOMAIN names : \A l \in DOMAIN names :
        k < l => Rank(names[k]) < Rank(names[l])

\* the step is the successful status write that ends a pass
StatusWritten == rec.pc = "status" /\ rec'.pc = "done" /\ rec'.wrote

PassStep == rec'.pc # rec.pc

\* the ingresses that carry the label redirect=<name>
Labelled(name) ==
    {i \in IngressNames :
        /\ ingresses[i] # Nil
        /\ "redirect" \in DOMAIN ingresses[i].labels
        /\ ingresses[i].labels["redirect"] = name}

UpsertWrote ==
    /\ rec.pc \in {"create", "update"}
    /\ rec'.pc # rec.pc
    /\ rec'.upsertErr = ErrNil

\* C12, as claimed: whatever tls.enable and tls.annotations are, the ingress
\* the reconciler stores has the permanent-redirect annotation
\* "http://<target>$request_uri" for the target of the Redirect it was built
\* from.
C12_AnnotationIsTarget ==
    [][UpsertWrote =>
         ingresses'[rec.name].annotations[PermanentRedirectKey]
            = "http://" \o rec.redirect.spec.target \o "$request_uri"]_vars

\* C12, as the code has it: the ingress the reconciler stores has the
\* permanent-redirect annotation "http://<target>$request_uri", unless TLS is
\* enabled and tls.annotations has an entry for that key, whose value is
\* stored instead.
C12_AnnotationIsTargetUnlessOverridden ==
    [][UpsertWrote =>
         LET spec == rec.redirect.spec
             overridden == /\ spec.tls.enable
                           /\ PermanentRedirectKey \in DOMAIN spec.tls.annotations
         IN  ingresses'[rec.name].annotations[PermanentRedirectKey]
                = IF overridden THEN spec.tls.annotations[PermanentRedirectKey]
                  ELSE "http://" \o spec.target \o "$request_uri"]_vars

\* the stored ingress of a Redirect with TLS enabled carries the
\* permanent-redirect value of tls.annotations, not the Redirect's target
C12_Witness ==
    /\ rec.pc = "list" /\ rec.upsertErr = ErrNil /\ rec.ingress # Nil
    /\ rec.redirect.spec.tls.enable
    /\ rec.redirect.spec.tls.annotations # NoMap
    /\ ingresses[rec.name] # Nil
    /\ ingresses[rec.name].annotations[PermanentRedirectKey]
          = "https://elsewhere.example.net"
    /\ ingresses[rec.name].annotations[PermanentRedirectKey]
          # "http://" \o rec.redirect.spec.target \o "$request_uri"

\* C13: whatever ingress was there before, the ingress a pass stores has
\* the TLS block for host = source when tls.enable of the Redirect it read is
\* true and no TLS block when it is false; and a pass that ends with the
\* status written has built its ingress from the spec the Redirect has then.
C13_TLSBlockIffEnabled ==
    /\ [][UpsertWrote =>
            ingresses'[rec.name].tls
               = IF rec.redirect.spec.tls.enable
                 THEN <<[hosts |-> <<Host(rec.redirect.spec.source)>>,
                         secretName |-> "old-example-com-redirect-secret"]>>
                 ELSE << >>]_vars
    /\ [][StatusWritten =>
            /\ rec.redirect.spec = redirects'[rec.name].spec
            /\ (rec.ingress.tls # << >>) = redirects'[rec.name].spec.tls.enable]_vars

\* a pass has read an ingress that has a TLS block and has built, for a
\* Redirect whose tls.enable is now false, the ingress without one that its
\* Update is about to store
C13_Witness ==
    /\ rec.pc = "update" /\ rec.ingress.rv = "none"
    /\ ~rec.redirect.spec.tls.enable
    /\ redirects[rec.name] # Nil /\ redirects[rec.name].spec = rec.redirect.spec
    /\ ingresses[rec.name] # Nil
    /\ Len(ingresses[rec.name].tls) = 1
    /\ rec.ingress.tls = << >>

\* the ingress a pass over a Redirect that has no ingress yet builds
FirstIngress(name, spec) ==
    SetControllerReference(name, NewRedirectIngress(EmptyIngress, name, spec))

\* the elements of a sequence
Range(seq) == {seq[k] : k \in DOMAIN seq}

\* the stored status of the Redirect of the pass is what a pass over the same
\* spec and the same labelled ingresses leaves: the target annotation of the
\* spec and the names of the ingresses the pass has listed, each once
StatusSettled ==
    LET status == redirects[rec.name].status
    IN  /\ status.target =
              RedirectAnnotations(rec.redirect.spec)[PermanentRedirectKey]
        /\ Len(status.ingressName) = Len(rec.items)
        /\ Range(status.ingressName) = {rec.items[k].name : k \in DOMAIN rec.items}

\* synthesis is idempotent, and the ingress a pass builds from the stored one
\* is the one it builds from nothing; an ingress that is stored as a first
\* pass leaves it is left so by the next Update
IngressIdempotent ==
    /\ [][(rec.pc = "upsert" /\ rec'.pc \in {"create", "update"}) =>
            LET name == rec.name
                spec == rec.redirect.spec
                first == NewRedirectIngress(EmptyIngress, name, spec)
            IN  /\ NewRedirectIngress(first, name, spec) = first
                /\ rec'.ingress = FirstIngress(name, spec)]_vars
    /\ [][(UpsertWrote /\ ingresses[rec.name]
                            = StoredIngress(FirstIngress(rec.name, rec.redirect.spec)))
            => ingresses' = ingresses]_vars

\* C14: synthesis and reconciliation are idempotent; a second
\* successful pass over an unchanged Redirect leaves the stored ingress and
\* the stored status exactly as the first pass left them.
C14_SecondPassChangesNothing ==
    /\ IngressIdempotent
    /\ [][(StatusWritten /\ StatusSettled) => redirects' = redirects]_vars

\* what does hold of a second pass: synthesis is idempotent, the stored
\* ingress stays as it is, status.target stays as it is and status.ingressName
\* keeps the same names; the status is exactly as before when the list call
\* returns the names in the order of the first pass, as it does when one
\* ingress carries the labels.
SecondPassSameIngressSameNames ==
    /\ IngressIdempotent
    /\ [][(StatusWritten /\ StatusSettled) =>
            LET before == redirects[rec.name].status
                after == redirects'[rec.name].status
            IN  /\ after.target = before.target
                /\ Range(after.ingressName) = Range(before.ingressName)
                /\ Len(after.ingressName) = Len(before.ingressName)
                /\ GetIngressNames(rec.items) = before.ingressName
                      => redirects' = redirects
                /\ Len(rec.items) <= 1 => redirects' = redirects
                /\ redirects'[rec.name].spec = redirects[rec.name].spec]_vars

\* a second pass over a Redirect whose ingress and status an earlier pass
\* wrote: it has stored the same ingress again and is about to write a status
\* with the same target and the same two names in another order
C14_SecondPassReorders ==
    /\ rec.pc = "status" /\ rec.redirect.fresh
    /\ redirects[rec.name] # Nil
    /\ ingresses[rec.name] = StoredIngress(FirstIngress(rec.name, rec.redirect.spec))
    /\ redirects[rec.name].status.target = rec.redirect.status.target
    /\ redirects[rec.name].status.ingressName = <<"extra", "blog">>
    /\ rec.redirect.status.ingressName = <<"blog", "extra">>

\* the step is the ShortLink reconciler's return, in slot r
ShortLinkReconcileReturns(r) ==
    /\ req[r].op = "reconcile" /\ req[r].pc = "gauges" /\ req'[r].pc = "done"

\* C15: when the object named in the request is not found, the Redirect
\* reconciler returns at once with no error and so with no requeue and the
\* ShortLink reconciler goes on to read the list for its gauges and returns
\* no error; neither pass has written to the store, and the steps change no
\* stored object.
C15_NotFoundIsNoOp ==
    /\ [][(rec.pc = "get" /\ rec'.pc = "done" /\ redirects[rec.name] = Nil) =>
            /\ rec'.err \in {ErrNil, ErrTransient}
            /\ rec'.err = ErrNil => rec'.result = "ok"
            /\ rec'.ingress = Nil /\ ~rec'.listed /\ ~rec'.wrote
            /\ <<redirects, ingresses, shortlinks>>' = <<redirects, ingresses, shortlinks>>]_vars
    /\ [](rec.pc = "done" /\ rec.redirect = Nil /\ rec.err = ErrNil =>
            rec.result = "ok" /\ ~rec.wrote /\ ~rec.listed /\ rec.ingress = Nil)
    /\ [][\A r \in Reqs :
            (ShortLinkReconcileReturns(r) /\ req[r].err = ErrNotFound) =>
               /\ req'[r].err = ErrNil
               /\ req'[r].writes = 0
               /\ ~req'[r].fault
               /\ <<redirects, ingresses, shortlinks>>' = <<redirects, ingresses, shortlinks>>]_vars
    /\ [](\A r \in Reqs : req[r].op = "reconcile" => req[r].writes = 0)

\* both reconcilers have ended a pass for an object that is not there, while
\* the other object of each kind's store exists
C15_Witness ==
    /\ rec.pc = "done" /\ rec.redirect = Nil /\ rec.err = ErrNil
    /\ redirects[rec.name] = Nil
    /\ \E r \in Reqs :
          /\ req[r].op = "reconcile" /\ req[r].pc = "done"
          /\ req[r].obj = Nil /\ req[r].calls = 2
          /\ shortlinks[req[r].name] = Nil


(***************************************************************************)
(* Properties of the invocation counter.                                   *)
(***************************************************************************)
\* request r holds a copy of its ShortLink and ends with this step, which is
\* its write of the status subresource
StatusWriteEnds(r) ==
    /\ req[r].pc \in {"increment", "status"}
    /\ req'[r].pc = "done"

\* C18: whatever the interleaving of GET /{name} requests, Updates and
\* passes of the ShortLink reconciler, the stored count of a ShortLink never
\* gets smaller: a status write from a copy that is out of date is rejected
\* and leaves the stored object alone.
C18_CountNeverDecreases ==
    /\ [][\A n \in Names :
            (shortlinks[n] # Nil /\ shortlinks'[n] # Nil) =>
                shortlinks'[n].count >= shortlinks[n].count]_vars
    /\ [][\A r \in Reqs :
            (StatusWriteEnds(r) /\ ~req[r].obj.fresh) =>
                /\ req'[r].err \in {ErrConflict, ErrTransient}
                /\ shortlinks' = shortlinks]_vars

\* a GET /{name} request was overtaken by two others: its status write came
\* back with a conflict and the stored count is 2
C18_Witness ==
    \E r \in Reqs :
        /\ req[r].op = "hit" /\ req[r].pc = "done"
        /\ req[r].err = ErrConflict /\ req[r].writes = 1
        /\ shortlinks[req[r].name] # Nil
        /\ shortlinks[req[r].name].count = 2

\* C19: an IncrementInvocationCount that follows a successful Get and
\* returns no error has raised the stored count by exactly one and has
\* changed no field of the stored spec; when nothing wrote the ShortLink
\* since the Get, it fails only if the store call itself fails.
C19_IncrementAddsOne ==
    [][\A r \in Reqs :
         (req[r].pc = "increment" /\ req'[r].pc = "done") =>
            LET before == shortlinks[req[r].name]
                after == shortlinks'[req[r].name]
            IN  /\ req'[r].err = ErrNil =>
                      /\ req[r].obj.fresh
                      /\ after # Nil
                      /\ after.count = before.count + 1
                      /\ SpecOf(after) = SpecOf(before)
                      /\ after = [before EXCEPT !.count = @ + 1]
                /\ req'[r].err # ErrNil => after = before
                /\ req[r].obj.fresh => req'[r].err \in {ErrNil, ErrTransient}]_vars

\* a GET /{name} request of a ShortLink that an Update has changed has
\* counted with no other request under way: the count is 2
C19_Witness ==
    /\ req[1].op = "hit" /\ req[1].pc = "done"
    /\ req[1].err = ErrNil /\ req[1].writes = 1
    /\ req[2] = IdleReq
    /\ shortlinks["home"] # Nil
    /\ shortlinks["home"].count = 2
    /\ shortlinks["home"].changedBy = "alice"

(***************************************************************************)
(* Further properties of the Redirect reconciler.                          *)
(***************************************************************************)
\* C20: no step of a reconciliation pass creates or deletes a Redirect or
\* changes the stored spec of one; the only step that changes a stored
\* Redirect is the status update, and it changes the status of the Redirect
\* of the pass and nothing else.
C20_ReconcilerKeepsSpec ==
    [][PassStep =>
         /\ \A n \in RedirectNames :
               /\ (redirects'[n] = Nil) = (redirects[n] = Nil)
               /\ redirects[n] # Nil => redirects'[n].spec = redirects[n].spec
               /\ n # rec.name => redirects'[n] = redirects[n]
         /\ redirects' # redirects =>
               /\ rec.pc = "status"
               /\ redirects'[rec.name].status = rec.redirect.status]_vars

\* a pass has written the status of Redirect shop, whose TLS is enabled,
\* while Redirect blog exists and has had no pass yet
C20_Witness ==
    /\ rec.pc = "done" /\ rec.wrote /\ rec.name = "shop"
    /\ redirects["shop"] # Nil
    /\ redirects["shop"].spec.tls.enable
    /\ redirects["shop"].status.target = "http://new.example.com$request_uri"
    /\ redirects["shop"].status.ingressName = <<"shop">>
    /\ redirects["blog"] # Nil
    /\ redirects["blog"].status = NoStatus

\* C16: every ingress a pass creates or updates is stored with the Redirect
\* of the pass as its controlling owner, and once the Redirect is deleted for
\* good the garbage collector removes the generated ingress for good, also
\* when a pass that began before the deletion writes the ingress after it.
C16_OwnedAndCollected ==
    /\ [][UpsertWrote => ingresses'[rec.name].owner = rec.name]_vars
    /\ [](\A i \in IngressNames : ingresses[i] # Nil => ingresses[i].owner = i)
    /\ <>[](redirects["blog"] = Nil) => <>[](ingresses["blog"] = Nil)

\* the Redirect was deleted while a pass was under way, and the pass has
\* created the ingress, owned by the Redirect, after the deletion
C16_Witness ==
    /\ redirects["blog"] = Nil
    /\ rec.name = "blog" /\ rec.pc = "list" /\ rec.upsertErr = ErrNil
    /\ ~rec.redirect.fresh
    /\ ingresses["blog"] # Nil
    /\ ingresses["blog"].owner = "blog"

\* the stored ingress of Redirect n is the one synthesized from its spec and
\* its status.target is the permanent-redirect annotation of that ingress
Converged(n) ==
    /\ redirects[n] # Nil
    /\ ingresses[n] = StoredIngress(FirstIngress(n, redirects[n].spec))
    /\ redirects[n].status.target = ingresses[n].annotations[PermanentRedirectKey]

\* no store call of the pass has failed for a reason of the store's
CallsSucceed == rec.err # ErrTransient /\ rec.upsertErr # ErrTransient

\* C17: when from some time on the Redirect exists with one and the same
\* spec and the store calls of the passes succeed, then, passes being
\* triggered again and again, from some time on the stored ingress is the
\* one synthesized from the spec and status.target is its permanent-redirect
\* annotation.
C17_Converges ==
    \A spec \in RedirectSpecs :
        <>[](/\ redirects["blog"] # Nil
             /\ redirects["blog"].spec = spec
             /\ CallsSucceed)
           => <>[]Converged("blog")

\* the Redirect's spec was replaced after a pass had converged on the old
\* one, and the next pass has converged on the new one: TLS is enabled now
\* and the annotation comes from tls.annotations
C17_Witness ==
    /\ Converged("blog")
    /\ rec.pc = "done" /\ rec.wrote /\ rec.result = "ok"
    /\ redirects["blog"].spec.tls.enable
    /\ redirects["blog"].spec.target = "other.example.org"
    /\ redirects["blog"].status.target = "https://elsewhere.example.net"
    /\ Len(ingresses["blog"].tls) = 1

(***************************************************************************)
(* Properties of ShortlinkClientAuth.Update, Delete and Create.            *)
(***************************************************************************)
\* the step is the return of request r's Update from its status write
UpdateReturns(r) ==
    /\ req[r].op = "update" /\ req[r].pc = "status"
    /\ req'[r].pc = "done"

\* C21: an Update whose spec write was applied does not return an error
\* with the spec it wrote stored and status.changedBy not set to its user.
C21_UpdateNotHalfApplied ==
    [][\A r \in Reqs :
         (UpdateReturns(r) /\ req'[r].err # ErrNil) =>
            LET after == shortlinks'[req[r].name]
            IN  ~(/\ after # Nil
                  /\ SpecOf(after) = SpecOf(req[r].obj)
                  /\ after.changedBy # req[r].user)]_vars

\* bob's Update has stored its spec (bob is a co-owner now), a GET /home
\* request has counted in between, and the Update has returned the conflict
\* of its status write: status.changedBy was never set
C21_HitBetweenWrites ==
    /\ req[1].op = "update" /\ req[1].user = "bob" /\ req[1].pc = "done"
    /\ req[1].err = ErrConflict /\ req[1].writes = 2
    /\ shortlinks["home"] # Nil
    /\ shortlinks["home"].coOwners = <<"bob">>
    /\ shortlinks["home"].changedBy = NoUser
    /\ shortlinks["home"].count = 1

\* the step is request r's spec write in Update
UpdateWritesSpec(r) ==
    /\ req[r].op = "update" /\ req[r].pc = "update"
    /\ req'[r].pc # "update"

\* C22: a successful Update leaves status.changedBy = U by a status write
\* of its own, issued after the spec write (which leaves the status alone);
\* a failed spec write is returned and no status write follows.
C22_ChangedByAfterSpecWrite ==
    [][\A r \in Reqs :
         LET name == req[r].name IN
         /\ (UpdateWritesSpec(r) /\ req'[r].err = ErrNil) =>
                /\ req'[r].pc = "status" /\ req'[r].writes = 1
                /\ shortlinks'[name].changedBy = shortlinks[name].changedBy
         /\ (UpdateWritesSpec(r) /\ req'[r].err # ErrNil) =>
                /\ req'[r].pc = "done" /\ req'[r].writes = 1
                /\ shortlinks' = shortlinks
         /\ (UpdateReturns(r) /\ req'[r].err = ErrNil) =>
                /\ req[r].writes = 1 /\ req'[r].writes = 2
                /\ shortlinks'[name].changedBy = req[r].user
                /\ SpecOf(shortlinks'[name]) = SpecOf(shortlinks[name])]_vars

\* bob's Update of alice's shortlink has returned without error after its
\* two writes, over a status alice had written last
C22_Witness ==
    /\ req[1].op = "update" /\ req[1].user = "bob" /\ req[1].pc = "done"
    /\ req[1].err = ErrNil /\ req[1].writes = 2
    /\ shortlinks["home"] # Nil
    /\ shortlinks["home"].changedBy = "bob"
    /\ shortlinks["home"].target = "example.com/page"

(***************************************************************************)
(* Error handling of the two reconcilers.                                  *)
(***************************************************************************)
\* C23: a pass whose fetch of its object failed with something other than
\* not-found returns a non-nil error, in both reconcilers; so does a pass
\* of the Redirect reconciler whose list call or status write failed.
C23_FailuresAreReturned ==
    /\ [][/\ (rec.pc = "get" /\ rec'.pc = "done" /\ redirects[rec.name] # Nil)
                => rec'.err # ErrNil /\ rec'.result = "error"
          /\ (rec.pc = "list" /\ rec'.pc = "done" /\ ~rec'.listed)
                => rec'.err # ErrNil /\ rec'.result = "error"
          /\ (rec.pc = "status" /\ rec'.pc = "done" /\ ~rec'.wrote)
                => rec'.err # ErrNil /\ rec'.result = "error"]_vars
    /\ [][\A r \in Reqs :
            (ShortLinkReconcileReturns(r)
                /\ req[r].err \notin {ErrNil, ErrNotFound})
               => req'[r].err # ErrNil]_vars

\* the ShortLink reconciler has returned no error from a pass whose
\* GetNamespaced failed although the object exists
C23_FetchFailureSwallowed ==
    \E r \in Reqs :
        /\ req[r].op = "reconcile" /\ req[r].pc = "done"
        /\ req[r].calls = 2 /\ req[r].obj = Nil
        /\ req[r].err = ErrNil
        /\ shortlinks[req[r].name] # Nil

(***************************************************************************)
(* The ingress written for a Redirect.                                     *)
(***************************************************************************)
\* the keys NewRedirectIngress sets itself
BaseKeys == {RewriteTargetKey, PermanentRedirectKey, PermanentRedirectCodeKey}

\* every entry of tls.annotations is in the annotation map, with its value
HasTLSAnnotations(annotations, spec) ==
    \A k \in DOMAIN spec.tls.annotations :
        /\ k \in DOMAIN annotations
        /\ annotations[k] = spec.tls.annotations[k]

\* C24, as claimed: whatever the Redirect's spec, the ingress the
\* reconciler stores has every entry of tls.annotations in its annotations,
\* with the value of tls.annotations also under a key the synthesizer sets.
C24_TLSAnnotationsMerged ==
    [][UpsertWrote =>
         HasTLSAnnotations(ingresses'[rec.name].annotations,
                           rec.redirect.spec)]_vars

\* C24, as the code has it: when tls.enable is true the stored ingress has
\* every entry of tls.annotations, their values winning over the
\* synthesizer's; when tls.enable is false it has the synthesizer's three
\* annotations and nothing of tls.annotations.
C24_TLSAnnotationsMergedWhenEnabled ==
    [][UpsertWrote =>
         LET spec == rec.redirect.spec
             annotations == ingresses'[rec.name].annotations
         IN  IF spec.tls.enable
             THEN /\ HasTLSAnnotations(annotations, spec)
                  /\ DOMAIN annotations = BaseKeys \cup DOMAIN spec.tls.annotations
             ELSE /\ DOMAIN annotations = BaseKeys
                  /\ annotations[PermanentRedirectKey]
                        = "http://" \o spec.target \o "$request_uri"]_vars

\* the stored ingress of a Redirect with tls.annotations and TLS not enabled
\* has no issuer annotation
C24_Witness ==
    /\ rec.pc = "list" /\ rec.upsertErr = ErrNil /\ rec.ingress # Nil
    /\ ~rec.redirect.spec.tls.enable
    /\ IssuerKey \in DOMAIN rec.redirect.spec.tls.annotations
    /\ ingresses[rec.name] # Nil
    /\ ingresses[rec.name].annotations = rec.ingress.annotations
    /\ IssuerKey \notin DOMAIN ingresses[rec.name].annotations

\* the step is the upsert's Create, accepted by the store
CreateStored ==
    /\ rec.pc = "create" /\ rec'.pc # rec.pc
    /\ rec'.upsertErr = ErrNil

\* C25: the upsert of a pass writes the ingress once: after a Create that
\* the store accepted the upsert is over and the pass goes on to list the
\* ingresses; an Update is issued only for an ingress the Get found.
C25_CreateOrUpdate ==
    [][CreateStored => rec'.pc = "list"]_vars

\* the Create of this pass has stored the ingress and the pass stands
\* before the Update of the same ingress
C25_UpdateAfterCreate ==
    /\ rec.pc = "update" /\ rec.ingress # Nil
    /\ rec.ingress.rv = "fresh"
    /\ ingresses[rec.name] = StoredIngress(rec.ingress)

(***************************************************************************)
(* Properties of ShortlinkClientAuth.Delete and of the DELETE and PUT      *)
(* handlers.                                                               *)
(***************************************************************************)
\* the step is the return of request r's call of ShortlinkClientAuth.Delete
DeleteReturns(r) ==
    /\ req[r].op = "delete" /\ req[r].pc = "delete"
    /\ req'[r].pc = "done"

\* C26: a direct Delete(U, S) with U neither the owner nor a co-owner of S
\* makes no store call: the stored object is there afterwards as it was.
C26_StrangerDeletesNothing ==
    [][\A r \in Reqs :
         (/\ DeleteReturns(r) /\ req[r].via = "client"
          /\ req[r].user # req[r].obj.owner
          /\ ~Contains(req[r].obj.coOwners, req[r].user)) =>
            /\ req'[r].calls = req[r].calls
            /\ req'[r].writes = req[r].writes
            /\ shortlinks[req[r].name] # Nil
            /\ shortlinks' = shortlinks]_vars

\* carol's Delete of a shortlink of alice and bob is over: no store call was
\* made and the shortlink is stored
C26_Witness ==
    \E r \in Reqs :
        /\ req[r].via = "client" /\ req[r].op = "delete"
        /\ req[r].pc = "done" /\ req[r].user = "carol"
        /\ req[r].calls = 0 /\ req[r].writes = 0
        /\ shortlinks[req[r].name] # Nil
        /\ shortlinks[req[r].name].owner = "alice"
        /\ shortlinks[req[r].name].coOwners = <<"bob">>

\* C27: a DELETE request removes the shortlink only if its user is the
\* owner or a co-owner of the object as it is stored when the store deletes
\* it.
C27_DeleteOnlyByStoredOwner ==
    [][\A r \in Reqs :
         (/\ DeleteReturns(r) /\ req[r].via = "http"
          /\ shortlinks[req[r].name] # Nil
          /\ shortlinks'[req[r].name] = Nil) =>
            IsOwnedBy(shortlinks[req[r].name], req[r].user)]_vars

\* alice's PUT has stored a spec without bob as co-owner (its status write
\* is still to come), and after that bob's DELETE, authorized by a Get
\* before alice's write, has removed the shortlink
C27_RevokedCoOwnerDeleted ==
    /\ req[1].op = "update" /\ req[1].user = "alice" /\ req[1].pc = "status"
    /\ req[1].writes = 1
    /\ req[1].obj # Nil /\ ~req[1].obj.fresh
    /\ req[1].obj.owner = "alice" /\ req[1].obj.coOwners = << >>
    /\ req[2].op = "delete" /\ req[2].user = "bob" /\ req[2].pc = "done"
    /\ req[2].err = ErrNil /\ req[2].writes = 1
    /\ shortlinks["home"] = Nil

\* request r is a PUT request taking a step
PutStep(r) ==
    /\ req[r].op = "update" /\ req[r].via = "http"
    /\ req'[r] # req[r]

\* C28: a PUT request changes the stored shortlink only when its user is
\* the owner or a co-owner of the object as stored then.  The Get of a user
\* who is neither ends the request with no write issued, and the Update
\* from a copy read before another write is rejected by the store and
\* changes nothing.
C28_PutOnlyByStoredOwner ==
    [][\A r \in Reqs :
         LET name == req[r].name
             stored == shortlinks[name]
         IN
         /\ (PutStep(r) /\ shortlinks' # shortlinks) =>
                /\ stored # Nil
                /\ IsOwnedBy(stored, req[r].user)
         /\ (PutStep(r) /\ req[r].pc = "get"
                /\ (IF stored = Nil THEN TRUE
                    ELSE ~IsOwnedBy(stored, req[r].user))) =>
                /\ req'[r].pc = "done" /\ req'[r].writes = 0
                /\ req'[r].resp # StatusOK
         /\ (PutStep(r) /\ req[r].pc = "update" /\ ~req[r].obj.fresh) =>
                /\ req'[r].pc = "done"
                /\ req'[r].resp = StatusInternalServerError
                /\ shortlinks' = shortlinks]_vars

\* bob's PUT, whose Get found him co-owner, has been answered with the
\* error of its rejected Update; the shortlink is stored as alice's PUT
\* without bob left it
C28_Witness ==
    /\ req[2].op = "update" /\ req[2].user = "bob" /\ req[2].pc = "done"
    /\ req[2].err = ErrConflict /\ req[2].calls = 2 /\ req[2].writes = 1
    /\ req[2].resp = StatusInternalServerError
    /\ shortlinks["home"] # Nil
    /\ shortlinks["home"].coOwners = << >>
    /\ shortlinks["home"].changedBy = "alice"

\* how often e occurs in the slice s
Occurrences(s, e) == Cardinality({i \in 1 .. Len(s) : s[i] = e})

\* C29: the spec a successful Update(U, S) stores is S's, with U appended
\* to coOwners when S names another owner and does not list U, and as it is
\* otherwise; so U is not listed twice, and when Update returns without
\* error U is the owner or a co-owner of the stored object.
C29_UpdaterKeepsAccess ==
    [][\A r \in Reqs :
         LET name == req[r].name
             username == req[r].user
             sent == req[r].obj
         IN
         /\ (UpdateWritesSpec(r) /\ req[r].via = "client"
                /\ req'[r].err = ErrNil) =>
                /\ shortlinks'[name].owner = sent.owner
                /\ shortlinks'[name].target = sent.target
                /\ shortlinks'[name].coOwners =
                      IF sent.owner # username
                            /\ ~Contains(sent.coOwners, username)
                      THEN Append(sent.coOwners, username)
                      ELSE sent.coOwners
                /\ Occurrences(shortlinks'[name].coOwners, username)
                      = IF Contains(sent.coOwners, username) \/ sent.owner # username
                        THEN 1 ELSE 0
         /\ (UpdateReturns(r) /\ req'[r].err = ErrNil) =>
                /\ \/ shortlinks'[name].owner = username
                   \/ Contains(shortlinks'[name].coOwners, username)
                /\ Occurrences(shortlinks'[name].coOwners, username) <= 1]_vars

\* bob's second Update of alice's shortlink, with himself as co-owner in
\* the spec he sends, has returned without error: he is listed once
C29_Witness ==
    /\ req[1].op = "update" /\ req[1].user = "bob" /\ req[1].pc = "done"
    /\ req[1].err = ErrNil /\ req[1].writes = 2
    /\ shortlinks["home"] # Nil
    /\ shortlinks["home"].owner = "alice"
    /\ shortlinks["home"].coOwners = <<"bob">>
    /\ shortlinks["home"].changedBy = "bob"
    /\ shortlinks["home"].target = "example.org"

(***************************************************************************)
(* Creating a shortlink under a name that is taken.                        *)
(***************************************************************************)
\* the step is request r's call of ShortlinkClientAuth.Create
CreateReturns(r) ==
    /\ req[r].op = "create" /\ req[r].pc = "create"
    /\ req'[r].calls = req[r].calls + 1

\* C30: a Create, direct or by the POST handler, for a name under which a
\* shortlink is stored fails with the store's error and changes nothing in
\* the store; the handler answers with a server error or, if it writes no
\* answer, at least not with a success it wrote.
C30_CreateOverExistingFails ==
    [][\A r \in Reqs :
         (CreateReturns(r) /\ shortlinks[req[r].name] # Nil) =>
            /\ req'[r].pc = "done"
            /\ req'[r].err \in {ErrAlreadyExists, ErrTransient}
            /\ req'[r].via = "http" =>
                  req'[r].resp \in {StatusInternalServerError, NotWritten}
            /\ shortlinks' = shortlinks]_vars

\* carol's POST for the name of a shortlink of alice and bob was answered
\* with the store's already-exists error; the shortlink is theirs as before
C30_Witness ==
    \E r \in Reqs :
        /\ req[r].op = "create" /\ req[r].via = "http" /\ req[r].pc = "done"
        /\ req[r].user = "carol"
        /\ req[r].err = ErrAlreadyExists
        /\ req[r].resp = StatusInternalServerError
        /\ shortlinks[req[r].name] # Nil
        /\ shortlinks[req[r].name].owner = "alice"
        /\ shortlinks[req[r].name].coOwners = <<"bob">>

=============================================================================
